---- MODULE Spec2Model ----
(***************************************************************************)
(* Model of aliceVision::matching::ArrayMatcher_cascadeHashing             *)
(* (src/src/aliceVision/matching/ArrayMatcher_cascadeHashing.hpp).         *)
(*                                                                         *)
(* The matcher object is the four private members memMapping,              *)
(* cascade_hasher_, hashed_base_ and zero_mean_descriptor_.  memMapping is *)
(* an Eigen::Map, a view (rows, cols) over the caller's buffer: the buffer *)
(* itself is the variable dataset.  CascadeHasher lives in                 *)
(* CascadeHasher.hpp, which is not part of the sources at hand: its four   *)
(* operations are modelled from the specification (sections 4.1 to 4.3).   *)
(*                                                                         *)
(* The rest of the state is the caller's: gen is its std::mt19937, last    *)
(* what the call that has just returned gave it, hist the arguments of the *)
(* most recent Build that succeeded, other a second matcher of its own,    *)
(* build and search the calls it has in flight on other threads.           *)
(***************************************************************************)
EXTENDS Integers, Sequences, FiniteSets

VARIABLES dataset, memMapping, cascade_hasher_, hashed_base_,
          zero_mean_descriptor_, gen, last, hist, other, build, search

vars == <<dataset, memMapping, cascade_hasher_, hashed_base_,
          zero_mean_descriptor_, gen, last, hist, other, build, search>>

(***************************************************************************)
(* Bounds of the model.                                                    *)
(***************************************************************************)
\* longest dataset buffer (scalars) the caller hands to Build
MaxCells == 3
\* longest query buffer (scalars) the caller hands to a search
MaxQCells == 2
\* Scalar values
Vals == {0, 1, 3}
\* descriptor dimensions
Dims == {1, 2}
\* prior contents of the caller's out-parameters of SearchNeighbour
OutVals == {0, 7}

\* an empty unique_ptr
NULL == [null |-> TRUE, rows |-> 0, cols |-> 0]

Buffers(n) == UNION {[1..l -> Vals] : l \in 0..n}

(***************************************************************************)
(* Eigen::Map<BaseMat>: a row-major view of rows x cols scalars.           *)
(***************************************************************************)
Map(data, rows, cols) == [data |-> data, rows |-> rows, cols |-> cols]

\* row i (0-based) of a view, as a vector 1..cols
Row(mat, i) == [j \in 1..mat.cols |-> mat.data[i * mat.cols + j]]

(***************************************************************************)
(* std::mt19937: a generator with a small cycle.  GenDraw(g, n) is the     *)
(* n-th entry (n >= 0) drawn from state g; entries are +1 or -1.           *)
(***************************************************************************)
GenMod == 2

GenDraw(g, n) == IF (g + n) % GenMod = 0 THEN 1 ELSE -1

GenAdvance(g, n) == (g + n) % GenMod

(***************************************************************************)
(* CascadeHasher (modelled from the specification).                        *)
(***************************************************************************)
\* bits of the primary (bucket) code and of the secondary (ranking) code
PrimaryBits == 1
SecondaryBits == 2
\* candidates wanted before ranking, and shortlist size, as multiples of k:
\* the tightest setting the specification allows (shortlist size >= k)
MinCandidateMul == 1
ShortlistMul == 1

\* a default-constructed hasher holds no projection
NoHasher == [primary |-> <<>>, secondary |-> <<>>]

\* CascadeHasher::Init(gen, dimension): the projections, and the generator
\* state it leaves behind
HasherInit(g, dimension) ==
  [hasher |->
     [primary |-> [b \in 1..PrimaryBits |->
                     [j \in 1..dimension |->
                        GenDraw(g, (b - 1) * dimension + (j - 1))]],
      secondary |-> [b \in 1..SecondaryBits |->
                     [j \in 1..dimension |->
                        GenDraw(g, (PrimaryBits + b - 1) * dimension + (j - 1))]]],
   gen |-> GenAdvance(g, (PrimaryBits + SecondaryBits) * dimension)]

RECURSIVE SumTo(_, _)
\* f[1] + ... + f[n]
SumTo(f, n) == IF n = 0 THEN 0 ELSE f[n] + SumTo(f, n - 1)

\* an empty Eigen::VectorXf
NoMean == [num |-> <<>>, den |-> 1]

\* CascadeHasher::GetZeroMeanDescriptor(mat): the element-wise mean of the
\* rows, kept exactly as the fraction num[j] / den
GetZeroMeanDescriptor(mat) ==
  [num |-> [j \in 1..mat.cols |->
              SumTo([i \in 1..mat.rows |-> Row(mat, i - 1)[j]], mat.rows)],
   den |-> mat.rows]

\* one bit: the sign of the projection of the zero-centred row x
\* (x - num/den) . p > 0  <=>  (den * x - num) . p > 0
Bit(x, zm, p) ==
  LET n == Len(p)
      c == [j \in 1..n |-> (zm.den * x[j] - zm.num[j]) * p[j]]
  IN IF SumTo(c, n) > 0 THEN 1 ELSE 0

HashRow(hasher, x, zm) ==
  [bucket |-> [b \in 1..Len(hasher.primary) |-> Bit(x, zm, hasher.primary[b])],
   code |-> [b \in 1..Len(hasher.secondary) |-> Bit(x, zm, hasher.secondary[b])]]

NoHashed == <<>>

\* CascadeHasher::CreateHashedDescriptions(mat, zero_mean): the hashed
\* descriptor of every row (entry i + 1 is row i); the bucket of a primary
\* code is the rows whose bucket field equals it
CreateHashedDescriptions(hasher, mat, zm) ==
  [i \in 1..mat.rows |-> HashRow(hasher, Row(mat, i - 1), zm)]

Hamming(a, b) == Cardinality({i \in DOMAIN a : a[i] # b[i]})

\* squared Euclidean distance (feature::L2_Simple)
L2(x, y) == SumTo([j \in 1..Len(x) |-> (x[j] - y[j]) * (x[j] - y[j])], Len(x))

\* the rows S in ascending order of key, a function on S, the smaller row
\* first among rows of equal key
SortBy(S, key) ==
  LET Less(a, b) == key[a] < key[b] \/ (key[a] = key[b] /\ a < b)
  IN [r \in 1..Cardinality(S) |->
        CHOOSE x \in S : Cardinality({y \in S : Less(y, x)}) = r - 1]

Min(a, b) == IF a < b THEN a ELSE b

\* step 2: the rows in the query's bucket, widened to buckets at growing
\* Hamming distance until MinCandidateMul * k rows are found or no bucket is left
Candidates(hq, hashed_base, NN) ==
  LET Within(r) == {j \in 0..(Len(hashed_base) - 1) :
                      Hamming(hq.bucket, hashed_base[j + 1].bucket) <= r}
      Enough(r) == Cardinality(Within(r)) >= MinCandidateMul * NN
      radius == IF \E r \in 0..PrimaryBits : Enough(r)
                THEN CHOOSE r \in 0..PrimaryBits :
                       Enough(r) /\ \A s \in 0..(r - 1) : ~Enough(s)
                ELSE PrimaryBits
  IN Within(radius)

\* step 3: the ShortlistMul * k candidates nearest in Hamming distance on the
\* secondary code (bucket order, that is row order, among equals)
Shortlist(hq, hashed_base, NN) ==
  LET cand == Candidates(hq, hashed_base, NN)
      ranked == SortBy(cand, [j \in cand |->
                               Hamming(hq.code, hashed_base[j + 1].code)])
  IN {ranked[r] : r \in 1..Min(ShortlistMul * NN, Len(ranked))}

\* steps 4 and 5 for one query row: the NN shortlisted rows nearest in true
\* distance, ascending, the smaller row first among equals; entries <<row, distance>>
MatchRow(hq, q, hashed_base, mat_base, NN) ==
  LET short == Shortlist(hq, hashed_base, NN)
      dist == [j \in short |-> L2(q, Row(mat_base, j))]
      scored == SortBy(short, dist)
  IN [r \in 1..Min(NN, Len(scored)) |-> <<scored[r], dist[scored[r]]>>]

RECURSIVE MatchFrom(_, _, _, _, _, _, _, _)
\* the results of query rows i, i + 1, ... appended to the output lists
MatchFrom(i, hashed_query, mat_query, hashed_base, mat_base, ind, dist, NN) ==
  IF i >= mat_query.rows THEN [indices |-> ind, distances |-> dist]
  ELSE LET res == MatchRow(hashed_query[i + 1], Row(mat_query, i),
                           hashed_base, mat_base, NN)
       IN MatchFrom(i + 1, hashed_query, mat_query, hashed_base, mat_base,
                    ind \o [r \in 1..Len(res) |-> <<i, res[r][1]>>],
                    dist \o [r \in 1..Len(res) |-> res[r][2]],
                    NN)

\* CascadeHasher::Match_HashedDescriptions: per query row, in query order,
\* IndMatch(query row, dataset row) and the distance, appended to the lists
Match_HashedDescriptions(hashed_query, mat_query, hashed_base, mat_base, pvec_indices, pvec_distances, NN) ==
  MatchFrom(0, hashed_query, mat_query, hashed_base, mat_base,
            pvec_indices, pvec_distances, NN)

(***************************************************************************)
(* The matcher object.                                                     *)
(***************************************************************************)
Matcher == [memMapping |-> memMapping,
            cascade_hasher_ |-> cascade_hasher_,
            hashed_base_ |-> hashed_base_,
            zero_mean_descriptor_ |-> zero_mean_descriptor_]

\* ArrayMatcher_cascadeHashing(): every member default-constructed
NeverBuilt == [memMapping |-> NULL,
               cascade_hasher_ |-> NoHasher,
               hashed_base_ |-> NoHashed,
               zero_mean_descriptor_ |-> NoMean]

\* the view memMapping points at, over the caller's buffer
Deref(m, data) == Map(data, m.memMapping.rows, m.memMapping.cols)

\* Build that adds the rows to those the stored mean was taken of
Build_AccumulatesMean(m, g, data, nbRows, dimension) ==
  IF nbRows < 1
  THEN [m |-> [m EXCEPT !.memMapping = NULL], gen |-> g,
        ret |-> FALSE, at |-> 59]
  ELSE LET mat == Map(data, nbRows, dimension)
           init == HasherInit(g, dimension)
           new == GetZeroMeanDescriptor(mat)
           old == m.zero_mean_descriptor_
           zm == IF Len(old.num) = dimension
                 THEN [num |-> [j \in 1..dimension |-> old.num[j] + new.num[j]],
                       den |-> old.den + new.den]
                 ELSE new
       IN [m |-> [memMapping |-> [null |-> FALSE, rows |-> nbRows,
                                  cols |-> dimension],
                  cascade_hasher_ |-> init.hasher,
                  hashed_base_ |-> CreateHashedDescriptions(init.hasher, mat, zm),
                  zero_mean_descriptor_ |-> zm],
           gen |-> init.gen, ret |-> TRUE, at |-> 70]

\* Build that draws projections only for a hasher that has none of the
\* dimension
Build_KeepsProjections(m, g, data, nbRows, dimension) ==
  IF nbRows < 1
  THEN [m |-> [m EXCEPT !.memMapping = NULL], gen |-> g,
        ret |-> FALSE, at |-> 59]
  ELSE LET mat == Map(data, nbRows, dimension)
           drawn == m.cascade_hasher_ # NoHasher
                      /\ Len(m.cascade_hasher_.primary[1]) = dimension
           init == IF drawn THEN [hasher |-> m.cascade_hasher_, gen |-> g]
                            ELSE HasherInit(g, dimension)
           zm == GetZeroMeanDescriptor(mat)
       IN [m |-> [memMapping |-> [null |-> FALSE, rows |-> nbRows,
                                  cols |-> dimension],
                  cascade_hasher_ |-> init.hasher,
                  hashed_base_ |-> CreateHashedDescriptions(init.hasher, mat, zm),
                  zero_mean_descriptor_ |-> zm],
           gen |-> init.gen, ret |-> TRUE, at |-> 70]

\* Build that keeps the stored mean when it has one of the dimension
Build_ReusesMean(m, g, data, nbRows, dimension) ==
  IF nbRows < 1
  THEN [m |-> [m EXCEPT !.memMapping = NULL], gen |-> g,
        ret |-> FALSE, at |-> 59]
  ELSE LET mat == Map(data, nbRows, dimension)
           init == HasherInit(g, dimension)
           old == m.zero_mean_descriptor_
           zm == IF old # NoMean /\ Len(old.num) = dimension
                 THEN old
                 ELSE GetZeroMeanDescriptor(mat)
       IN [m |-> [memMapping |-> [null |-> FALSE, rows |-> nbRows,
                                  cols |-> dimension],
                  cascade_hasher_ |-> init.hasher,
                  hashed_base_ |-> CreateHashedDescriptions(init.hasher, mat, zm),
                  zero_mean_descriptor_ |-> zm],
           gen |-> init.gen, ret |-> TRUE, at |-> 70]

\* Build that takes the mean of the first row only
Build_MeanFirstRow(m, g, data, nbRows, dimension) ==
  IF nbRows < 1
  THEN [m |-> [m EXCEPT !.memMapping = NULL], gen |-> g,
        ret |-> FALSE, at |-> 59]
  ELSE LET mat == Map(data, nbRows, dimension)
           init == HasherInit(g, dimension)
           zm == GetZeroMeanDescriptor(Map(data, 1, dimension))
       IN [m |-> [memMapping |-> [null |-> FALSE, rows |-> nbRows,
                                  cols |-> dimension],
                  cascade_hasher_ |-> init.hasher,
                  hashed_base_ |-> CreateHashedDescriptions(init.hasher, mat, zm),
                  zero_mean_descriptor_ |-> zm],
           gen |-> init.gen, ret |-> TRUE, at |-> 70]

\* Build that hashes the dataset before it has the mean
Build_HashBeforeMean(m, g, data, nbRows, dimension) ==
  IF nbRows < 1
  THEN [m |-> [m EXCEPT !.memMapping = NULL], gen |-> g,
        ret |-> FALSE, at |-> 59]
  ELSE LET mat == Map(data, nbRows, dimension)
           init == HasherInit(g, dimension)
           zm == GetZeroMeanDescriptor(mat)
       IN [m |-> [memMapping |-> [null |-> FALSE, rows |-> nbRows,
                                  cols |-> dimension],
                  cascade_hasher_ |-> init.hasher,
                  hashed_base_ |-> CreateHashedDescriptions(
                                     init.hasher, mat,
                                     [num |-> [j \in 1..dimension |-> 0],
                                      den |-> 1]),
                  zero_mean_descriptor_ |-> zm],
           gen |-> init.gen, ret |-> TRUE, at |-> 70]

\* Build that leaves the view in place when it fails
Build_KeepsView(m, g, data, nbRows, dimension) ==
  IF nbRows < 1
  THEN [m |-> m, gen |-> g, ret |-> FALSE, at |-> 59]
  ELSE LET mat == Map(data, nbRows, dimension)
           init == HasherInit(g, dimension)
           zm == GetZeroMeanDescriptor(mat)
       IN [m |-> [memMapping |-> [null |-> FALSE, rows |-> nbRows,
                                  cols |-> dimension],
                  cascade_hasher_ |-> init.hasher,
                  hashed_base_ |-> CreateHashedDescriptions(init.hasher, mat, zm),
                  zero_mean_descriptor_ |-> zm],
           gen |-> init.gen, ret |-> TRUE, at |-> 70]

\* Build(gen, dataset, nbRows, dimension) on matcher m: the matcher and the
\* generator after the call, the value returned and the line that returns
\* it, and the caller's dataset buffer after the call
Build(m, g, data, nbRows, dimension) ==
  IF nbRows < 1
  THEN [m |-> [m EXCEPT !.memMapping = NULL], gen |-> g,
        ret |-> FALSE, at |-> 59, data |-> data]
  ELSE LET view == [null |-> FALSE, rows |-> nbRows, cols |-> dimension]
           mat == Map(data, nbRows, dimension)
           init == HasherInit(g, dimension)
           zm == GetZeroMeanDescriptor(mat)
       IN [m |-> [memMapping |-> view,
                  cascade_hasher_ |-> init.hasher,
                  hashed_base_ |-> CreateHashedDescriptions(init.hasher, mat, zm),
                  zero_mean_descriptor_ |-> zm],
           gen |-> init.gen, ret |-> TRUE, at |-> 70, data |-> data]

\* SearchNeighbour that writes its out-parameters before it gives up
SearchNeighbour_Writes(m, query, indice, distance) ==
  [m |-> m, ret |-> FALSE, at |-> 87, indice |-> -1,
   distance |-> -1, warned |-> TRUE, deref |-> FALSE]

\* SearchNeighbour(query, indice, distance): the value returned, the
\* out-parameters after the call, the warning logged, whether *memMapping
\* was evaluated
SearchNeighbour(m, query, indice, distance) ==
  [m |-> m, ret |-> FALSE, at |-> 87, indice |-> indice,
   distance |-> distance, warned |-> TRUE, deref |-> FALSE]

\* SearchNeighbours without the test of NN and nbQuery
SearchNeighbours_NoArgTest(m, data, query, nbQuery, pvec_indices, pvec_distances, NN) ==
  IF m.memMapping = NULL
  THEN [m |-> m, ret |-> FALSE, at |-> 111, indices |-> pvec_indices,
        distances |-> pvec_distances, deref |-> FALSE, hashed_query |-> <<>>]
  ELSE LET mat_query == Map(query, nbQuery, Deref(m, data).cols)
           hashed_query == CreateHashedDescriptions(
                             m.cascade_hasher_, mat_query,
                             m.zero_mean_descriptor_)
           out == Match_HashedDescriptions(
                    hashed_query, mat_query, m.hashed_base_, Deref(m, data),
                    pvec_indices, pvec_distances, NN)
       IN [m |-> m, ret |-> TRUE, at |-> 135, indices |-> out.indices,
           distances |-> out.distances, deref |-> TRUE,
           hashed_query |-> hashed_query]

\* SearchNeighbours that empties the output lists on entry
SearchNeighbours_ClearsFirst(m, data, query, nbQuery, pvec_indices, pvec_distances, NN) ==
  IF m.memMapping = NULL
  THEN [m |-> m, ret |-> FALSE, at |-> 111, indices |-> <<>>,
        distances |-> <<>>, deref |-> FALSE, hashed_query |-> <<>>]
  ELSE IF NN > Deref(m, data).rows \/ nbQuery < 1
  THEN [m |-> m, ret |-> FALSE, at |-> 115, indices |-> <<>>,
        distances |-> <<>>, deref |-> TRUE, hashed_query |-> <<>>]
  ELSE LET mat_query == Map(query, nbQuery, Deref(m, data).cols)
           hashed_query == CreateHashedDescriptions(
                             m.cascade_hasher_, mat_query,
                             m.zero_mean_descriptor_)
           out == Match_HashedDescriptions(
                    hashed_query, mat_query, m.hashed_base_, Deref(m, data),
                    <<>>, <<>>, NN)
       IN [m |-> m, ret |-> TRUE, at |-> 135, indices |-> out.indices,
           distances |-> out.distances, deref |-> TRUE,
           hashed_query |-> hashed_query]

\* SearchNeighbours that hands nbQuery to the matching where NN belongs
SearchNeighbours_WrongCount(m, data, query, nbQuery, pvec_indices, pvec_distances, NN) ==
  IF m.memMapping = NULL
  THEN [m |-> m, ret |-> FALSE, at |-> 111, indices |-> pvec_indices,
        distances |-> pvec_distances, deref |-> FALSE, hashed_query |-> <<>>]
  ELSE IF NN > Deref(m, data).rows \/ nbQuery < 1
  THEN [m |-> m, ret |-> FALSE, at |-> 115, indices |-> pvec_indices,
        distances |-> pvec_distances, deref |-> TRUE, hashed_query |-> <<>>]
  ELSE LET mat_query == Map(query, nbQuery, Deref(m, data).cols)
           hashed_query == CreateHashedDescriptions(
                             m.cascade_hasher_, mat_query,
                             m.zero_mean_descriptor_)
           out == Match_HashedDescriptions(
                    hashed_query, mat_query, m.hashed_base_, Deref(m, data),
                    pvec_indices, pvec_distances, nbQuery)
       IN [m |-> m, ret |-> TRUE, at |-> 135, indices |-> out.indices,
           distances |-> out.distances, deref |-> TRUE,
           hashed_query |-> hashed_query]

\* SearchNeighbours without the test of memMapping
SearchNeighbours_NoNullTest(m, data, query, nbQuery, pvec_indices, pvec_distances, NN) ==
  IF NN > Deref(m, data).rows \/ nbQuery < 1
  THEN [m |-> m, ret |-> FALSE, at |-> 115, indices |-> pvec_indices,
        distances |-> pvec_distances, deref |-> TRUE, hashed_query |-> <<>>]
  ELSE LET mat_query == Map(query, nbQuery, Deref(m, data).cols)
           hashed_query == CreateHashedDescriptions(
                             m.cascade_hasher_, mat_query,
                             m.zero_mean_descriptor_)
           out == Match_HashedDescriptions(
                    hashed_query, mat_query, m.hashed_base_, Deref(m, data),
                    pvec_indices, pvec_distances, NN)
       IN [m |-> m, ret |-> TRUE, at |-> 135, indices |-> out.indices,
           distances |-> out.distances, deref |-> TRUE,
           hashed_query |-> hashed_query]

\* SearchNeighbours that rejects NN = rows too
SearchNeighbours_RejectsAll(m, data, query, nbQuery, pvec_indices, pvec_distances, NN) ==
  IF m.memMapping = NULL
  THEN [m |-> m, ret |-> FALSE, at |-> 111, indices |-> pvec_indices,
        distances |-> pvec_distances, deref |-> FALSE, hashed_query |-> <<>>]
  ELSE IF NN >= Deref(m, data).rows \/ nbQuery < 1
  THEN [m |-> m, ret |-> FALSE, at |-> 115, indices |-> pvec_indices,
        distances |-> pvec_distances, deref |-> TRUE, hashed_query |-> <<>>]
  ELSE LET mat_query == Map(query, nbQuery, Deref(m, data).cols)
           hashed_query == CreateHashedDescriptions(
                             m.cascade_hasher_, mat_query,
                             m.zero_mean_descriptor_)
           out == Match_HashedDescriptions(
                    hashed_query, mat_query, m.hashed_base_, Deref(m, data),
                    pvec_indices, pvec_distances, NN)
       IN [m |-> m, ret |-> TRUE, at |-> 135, indices |-> out.indices,
           distances |-> out.distances, deref |-> TRUE,
           hashed_query |-> hashed_query]

\* SearchNeighbours that takes the mean off the query rows in the caller's
\* buffer, through the view it makes of it
SearchNeighbours_CentresQuery(m, data, query, nbQuery, pvec_indices, pvec_distances, NN) ==
  IF m.memMapping = NULL
  THEN [m |-> m, ret |-> FALSE, at |-> 111, indices |-> pvec_indices,
        distances |-> pvec_distances, deref |-> FALSE, hashed_query |-> <<>>,
        data |-> data, query |-> query]
  ELSE IF NN > Deref(m, data).rows \/ nbQuery < 1
  THEN [m |-> m, ret |-> FALSE, at |-> 115, indices |-> pvec_indices,
        distances |-> pvec_distances, deref |-> TRUE, hashed_query |-> <<>>,
        data |-> data, query |-> query]
  ELSE LET cols == Deref(m, data).cols
           zm == m.zero_mean_descriptor_
           centred == [k \in 1..(nbQuery * cols) |->
                         zm.den * query[k] - zm.num[((k - 1) % cols) + 1]]
           mat_query == Map(query, nbQuery, cols)
           hashed_query == CreateHashedDescriptions(
                             m.cascade_hasher_, mat_query,
                             m.zero_mean_descriptor_)
           out == Match_HashedDescriptions(
                    hashed_query, mat_query, m.hashed_base_, Deref(m, data),
                    pvec_indices, pvec_distances, NN)
       IN [m |-> m, ret |-> TRUE, at |-> 135, indices |-> out.indices,
           distances |-> out.distances, deref |-> TRUE,
           hashed_query |-> hashed_query,
           data |-> data, query |-> centred]

\* SearchNeighbours(query, nbQuery, pvec_indices, pvec_distances, NN) on
\* matcher m whose view is over data: the matcher after the call, the value
\* returned, the line that returns it, the output lists after the call,
\* whether *memMapping was evaluated and the query codes computed, and the
\* caller's dataset and query buffers after the call
SearchNeighbours(m, data, query, nbQuery, pvec_indices, pvec_distances, NN) ==
  IF m.memMapping = NULL
  THEN [m |-> m, ret |-> FALSE, at |-> 111, indices |-> pvec_indices,
        distances |-> pvec_distances, deref |-> FALSE, hashed_query |-> <<>>,
        data |-> data, query |-> query]
  ELSE IF NN > Deref(m, data).rows \/ nbQuery < 1
  THEN [m |-> m, ret |-> FALSE, at |-> 115, indices |-> pvec_indices,
        distances |-> pvec_distances, deref |-> TRUE, hashed_query |-> <<>>,
        data |-> data, query |-> query]
  ELSE LET mat_query == Map(query, nbQuery, Deref(m, data).cols)
           hashed_query == CreateHashedDescriptions(
                             m.cascade_hasher_, mat_query,
                             m.zero_mean_descriptor_)
           out == Match_HashedDescriptions(
                    hashed_query, mat_query, m.hashed_base_, Deref(m, data),
                    pvec_indices, pvec_distances, NN)
       IN [m |-> m, ret |-> TRUE, at |-> 135, indices |-> out.indices,
           distances |-> out.distances, deref |-> TRUE,
           hashed_query |-> hashed_query,
           data |-> data, query |-> query]

(***************************************************************************)
(* The state machine: a caller that builds and searches in any order.      *)
(* last is the caller's record of the call that has just returned, with    *)
(* its arguments and results; the caller drops it (Resume) before it calls *)
(* again.                                                                  *)
(***************************************************************************)
NoCall == [op |-> "none"]

\* the arguments of a Build: the state of the generator it was handed, the
\* contents of the dataset buffer as they were, the two sizes
BuildArgs(g, data, nbRows, dimension) ==
  [gen0 |-> g, data |-> data, nbRows |-> nbRows, dimension |-> dimension]

\* no Build has succeeded since the matcher was made or since a Build failed
NoBuild == BuildArgs(0, <<>>, 0, 0)

\* what the caller keeps of the matcher before a Build: the index a Build
\* with the very same arguments had left, to compare; nothing otherwise
Before(args) ==
  IF hist = args THEN [m |-> Matcher, dataset |-> dataset]
                 ELSE [m |-> NeverBuilt, dataset |-> <<>>]

\* a second matcher the caller makes: none of its Builds has run yet
FreshOther ==
  [m |-> NeverBuilt, dataset |-> <<>>, hist |-> NoBuild, rebuilt |-> FALSE]

\* no Build is in flight on another thread (pc is the line the call is at)
NoBuildCall ==
  [pc |-> 0, gen0 |-> 0, data |-> <<>>, nbRows |-> 0, dimension |-> 0]

\* the threads the caller searches from
Threads == {1, 2}

\* a thread that has no search in flight.  The fields are the arguments and
\* locals of SearchNeighbours (pc is the line the call is at), and what the
\* call has met: rows and cols as it read them at lines 114 and 119, seen
\* the members as it read them at lines 125 and 129, seenData the dataset
\* buffer as it read it, overlap whether a Build was in flight while it ran,
\* same whether it left the members as they were
Idle ==
  [pc |-> 0, query |-> <<>>, nbQuery |-> 0, NN |-> 0, rows |-> 0, cols |-> 0,
   hashed_query |-> <<>>, indices |-> <<>>, distances |-> <<>>,
   ret |-> FALSE, fault |-> FALSE, overlap |-> FALSE, same |-> TRUE,
   seen |-> NeverBuilt, seenData |-> <<>>]

Init ==
  /\ dataset = <<>>
  /\ memMapping = NeverBuilt.memMapping
  /\ cascade_hasher_ = NeverBuilt.cascade_hasher_
  /\ hashed_base_ = NeverBuilt.hashed_base_
  /\ zero_mean_descriptor_ = NeverBuilt.zero_mean_descriptor_
  /\ gen \in 0..(GenMod - 1)
  /\ last = NoCall
  /\ hist = NoBuild
  /\ other = FreshOther
  /\ build = NoBuildCall
  /\ search = [t \in Threads |-> Idle]

SetMatcher(m) ==
  /\ memMapping' = m.memMapping
  /\ cascade_hasher_' = m.cascade_hasher_
  /\ hashed_base_' = m.hashed_base_
  /\ zero_mean_descriptor_' = m.zero_mean_descriptor_

\* the caller hands Build a buffer of nbRows * dimension scalars
DoBuild ==
  /\ last = NoCall
  /\ \E dimension \in Dims, nbRows \in 0..MaxCells :
       /\ nbRows * dimension <= MaxCells
       /\ \E data \in [1..(nbRows * dimension) -> Vals] :
            \E r \in {Build(Matcher, gen, data, nbRows, dimension)} :
              /\ dataset' = data
              /\ SetMatcher(r.m)
              /\ gen' = r.gen
              /\ hist' = IF r.ret THEN BuildArgs(gen, data, nbRows, dimension)
                                  ELSE NoBuild
              /\ UNCHANGED <<other, build, search>>
              /\ last' = [op |-> "Build", ret |-> r.ret, at |-> r.at,
                          nbRows |-> nbRows, dimension |-> dimension,
                          warned |-> FALSE,
                          wasBuilt |-> memMapping # NULL,
                          again |-> hist = BuildArgs(gen, data, nbRows, dimension),
                          before |-> Before(BuildArgs(gen, data, nbRows, dimension))]

DoSearchNeighbour ==
  /\ last = NoCall
  /\ \E query \in Buffers(1), prior \in OutVals :
       \E r \in {SearchNeighbour(Matcher, query, prior, prior)} :
         /\ SetMatcher(r.m)
         /\ UNCHANGED <<dataset, gen, hist, other, build, search>>
         /\ last' = [op |-> "SearchNeighbour", ret |-> r.ret, at |-> r.at,
                     query |-> query, indice0 |-> prior, distance0 |-> prior,
                     indice |-> r.indice, distance |-> r.distance,
                     warned |-> r.warned, deref |-> r.deref,
                     wasBuilt |-> memMapping # NULL,
                     same |-> r.m = Matcher]

\* the query rows have the width of the view when there is one
QueryCols == IF memMapping = NULL THEN Dims ELSE {memMapping.cols}

\* the query batches of the caller: any short buffer of whole rows, and the
\* indexed dataset itself
Queries ==
  {[nbQuery |-> n, data |-> d] :
     n \in {n \in 0..MaxQCells : \E c \in QueryCols : n * c <= MaxQCells},
     d \in Buffers(MaxQCells)}
  \cup {[nbQuery |-> memMapping.rows, data |-> dataset]}

\* the neighbour counts asked for: up to one more than the rows of the view
KRange == 0..(memMapping.rows + 1)

\* the lists the caller passes hold nothing or one earlier match
PriorOut == {[indices |-> <<>>, distances |-> <<>>],
             [indices |-> <<<<0, 0>>>>, distances |-> <<0>>]}

DoSearchNeighbours ==
  /\ last = NoCall
  /\ \E q \in Queries, NN \in KRange, prior \in PriorOut :
       /\ \E c \in QueryCols : Len(q.data) = q.nbQuery * c
       /\ \E r \in {SearchNeighbours(Matcher, dataset, q.data, q.nbQuery,
                                     prior.indices, prior.distances, NN)} :
            /\ SetMatcher(r.m)
            /\ UNCHANGED <<dataset, gen, hist, other, build, search>>
            /\ last' = [op |-> "SearchNeighbours", ret |-> r.ret, at |-> r.at,
                        query |-> q.data, nbQuery |-> q.nbQuery, NN |-> NN,
                        indices0 |-> prior.indices,
                        distances0 |-> prior.distances,
                        indices |-> r.indices, distances |-> r.distances,
                        warned |-> FALSE,
                        deref |-> r.deref, hashed_query |-> r.hashed_query,
                        wasBuilt |-> memMapping # NULL,
                        same |-> r.m = Matcher]

\* the caller has looked at the outcome and goes on
Resume ==
  /\ last # NoCall
  /\ last' = NoCall
  /\ UNCHANGED <<dataset, memMapping, cascade_hasher_, hashed_base_,
                 zero_mean_descriptor_, gen, hist, other, build, search>>

Next == DoBuild \/ DoSearchNeighbour \/ DoSearchNeighbours \/ Resume

Spec == Init /\ [][Next]_vars

(***************************************************************************)
(* What the claims speak of.                                               *)
(***************************************************************************)
Searched == last.op = "SearchNeighbours"

\* rows of the index
N == memMapping.rows

\* where the results of this call start in the caller's lists
Base == Len(last.indices0)

\* the r-th result (1-based) of query row i (0-based), NN results a row
ResIndex(i, r) == last.indices[Base + i * last.NN + r]
ResDistance(i, r) == last.distances[Base + i * last.NN + r]

QueryRow(i) == Row(Map(last.query, last.nbQuery, memMapping.cols), i)
DataRow(j) == Row(Map(dataset, N, memMapping.cols), j)

OutputsUntouched ==
  last.indices = last.indices0 /\ last.distances = last.distances0

\* C1: on a matcher that is not built, SearchNeighbours fails for every
\* query batch and every k, and never evaluates *memMapping.
C1_UnbuiltSearchFails ==
  (Searched /\ ~last.wasBuilt) => (~last.ret /\ ~last.deref)

C1_Witness ==
  /\ Searched /\ ~last.wasBuilt /\ cascade_hasher_ = NoHasher
  /\ last.nbQuery >= 1 /\ last.NN >= 1 /\ ~last.ret

\* C2: Build with zero rows fails from any state and leaves no view; any
\* search on a matcher without a view fails at the test of memMapping, and
\* no search brings a view back.
C2_EmptyBuildInvalidates ==
  /\ (last.op = "Build" /\ last.nbRows < 1)
       => (~last.ret /\ last.at = 59 /\ memMapping = NULL)
  /\ (Searched /\ memMapping = NULL) => (~last.ret /\ last.at = 111)
  /\ (last.op \in {"SearchNeighbours", "SearchNeighbour"} /\ ~last.wasBuilt)
       => memMapping = NULL

\* a search after a failed Build on a matcher that had been built
C2_Witness ==
  /\ Searched /\ memMapping = NULL /\ cascade_hasher_ # NoHasher
  /\ last.nbQuery >= 1 /\ last.NN >= 1 /\ ~last.ret

\* C3: on a built index of N rows, k > N is refused at the test of k, and
\* k = N with a query batch of at least one row succeeds and gives, for each
\* query row, every dataset row once, with its true distance, nearest first.
C3_KAtMostN ==
  (Searched /\ last.wasBuilt) =>
    /\ last.NN > N => (~last.ret /\ last.at = 115 /\ OutputsUntouched)
    /\ (last.NN = N /\ last.nbQuery >= 1) =>
         /\ last.ret
         /\ Len(last.indices) = Base + last.nbQuery * N
         /\ Len(last.distances) = Base + last.nbQuery * N
         /\ \A i \in 0..(last.nbQuery - 1) :
              /\ {ResIndex(i, r) : r \in 1..N} = {<<i, j>> : j \in 0..(N - 1)}
              /\ \A r \in 1..N :
                   ResDistance(i, r) = L2(QueryRow(i), DataRow(ResIndex(i, r)[2]))
              /\ \A r \in 1..(N - 1) : ResDistance(i, r) <= ResDistance(i, r + 1)

C3_Witness ==
  /\ Searched /\ last.wasBuilt /\ last.ret
  /\ last.NN = N /\ N >= 2 /\ last.nbQuery >= 2
  /\ ResDistance(1, 1) < ResDistance(1, 2)

\* C4: on a built index, k < 1 is refused: the call fails and gives no result.
C4_KBelowOneRefused ==
  (Searched /\ last.wasBuilt /\ last.NN < 1) => (~last.ret /\ OutputsUntouched)

\* C5: SearchNeighbour fails in every state and for every query, logs its
\* warning, matches nothing, writes neither out-parameter and leaves the
\* matcher as it was.
C5_SingleQueryRefused ==
  last.op = "SearchNeighbour" =>
    /\ ~last.ret /\ last.warned /\ ~last.deref
    /\ last.indice = last.indice0 /\ last.distance = last.distance0
    /\ last.same

C5_Witness ==
  /\ last.op = "SearchNeighbour" /\ last.wasBuilt /\ ~last.ret
  /\ Len(last.query) = memMapping.cols /\ last.indice = 7

\* the values a caller gets from the failures
ErrIndexNotBuilt ==
  SearchNeighbours(NeverBuilt, <<>>, <<0>>, 1, <<>>, <<>>, 1).ret
ErrEmptyDataset == Build(NeverBuilt, 0, <<>>, 0, 1).ret
ErrInvalidArgs ==
  SearchNeighbours(Build(NeverBuilt, 0, <<0>>, 1, 1).m, <<0>>, <<0>>, 1,
                   <<>>, <<>>, 2).ret

\* C6 as claimed: a search refused for its arguments gives a value other
\* than that of an index not built, and the single-query refusal gives a
\* value other than both and other than that of a Build on no rows.
C6_ErrorsDistinct ==
  /\ (Searched /\ last.at = 115) => last.ret # ErrIndexNotBuilt
  /\ last.op = "SearchNeighbour" =>
       /\ last.ret # ErrIndexNotBuilt
       /\ last.ret # ErrInvalidArgs
       /\ last.ret # ErrEmptyDataset

\* the calls that fail
FailureCase ==
  \/ last.op = "Build" /\ last.nbRows < 1
  \/ last.op = "SearchNeighbour"
  \/ Searched /\ (~last.wasBuilt \/ last.NN > N \/ last.nbQuery < 1)

\* C6 as amended: every failing call returns the one value false, which is
\* the value of an index not built, of refused arguments and of a Build on no
\* rows alike; every other call returns true; only the single-query refusal
\* logs a warning.
C6_FailuresAllFalse ==
  last.op # "none" =>
    /\ FailureCase => /\ last.ret = FALSE
                      /\ last.ret = ErrIndexNotBuilt
                      /\ last.ret = ErrInvalidArgs
                      /\ last.ret = ErrEmptyDataset
    /\ ~FailureCase => last.ret = TRUE
    /\ last.warned <=> last.op = "SearchNeighbour"

C6_Witness ==
  /\ Searched /\ last.wasBuilt /\ last.NN > N /\ last.nbQuery >= 1
  /\ last.ret = ErrIndexNotBuilt

\* C7: a SearchNeighbours that fails leaves the caller's lists and the
\* matcher as they were; one that succeeds keeps what the lists held and
\* adds NN matches with their distances for every query row.
C7_AllOrNothing ==
  Searched =>
    /\ last.same
    /\ ~last.ret => OutputsUntouched
    /\ last.ret =>
         /\ Len(last.indices) = Base + last.nbQuery * last.NN
         /\ Len(last.distances) = Base + last.nbQuery * last.NN
         /\ SubSeq(last.indices, 1, Base) = last.indices0
         /\ SubSeq(last.distances, 1, Base) = last.distances0
         /\ \A i \in 0..(last.nbQuery - 1) : \A r \in 1..last.NN :
              /\ ResIndex(i, r)[1] = i
              /\ ResIndex(i, r)[2] \in 0..(N - 1)

C7_Witness ==
  /\ Searched /\ last.wasBuilt /\ ~last.ret /\ last.at = 115
  /\ last.nbQuery < 1 /\ last.NN = 1 /\ last.indices0 # <<>>

\* C8: on a built index of N rows, a query batch of at least one row and
\* 1 <= k <= N give exactly k results per query row, each with its true
\* distance, in ascending order of distance and, at equal distance, of
\* dataset row.
C8_KSortedResults ==
  (Searched /\ last.wasBuilt /\ last.nbQuery >= 1
     /\ 1 <= last.NN /\ last.NN <= N) =>
    /\ last.ret
    /\ Len(last.indices) = Base + last.nbQuery * last.NN
    /\ Len(last.distances) = Base + last.nbQuery * last.NN
    /\ \A i \in 0..(last.nbQuery - 1) :
         /\ \A r \in 1..last.NN :
              /\ ResIndex(i, r)[1] = i
              /\ ResIndex(i, r)[2] \in 0..(N - 1)
              /\ ResDistance(i, r) = L2(QueryRow(i), DataRow(ResIndex(i, r)[2]))
         /\ \A r \in 1..(last.NN - 1) :
              \/ ResDistance(i, r) < ResDistance(i, r + 1)
              \/ /\ ResDistance(i, r) = ResDistance(i, r + 1)
                 /\ ResIndex(i, r)[2] < ResIndex(i, r + 1)[2]

\* two results at the same distance, k below N
C8_Witness ==
  /\ Searched /\ last.ret /\ last.NN = 2 /\ N > 2 /\ last.nbQuery = 2
  /\ ResDistance(1, 1) = ResDistance(1, 2)
  /\ ResDistance(1, 1) > 0

\* the dataset searched against itself
SelfQuery ==
  /\ Searched /\ last.wasBuilt /\ last.ret /\ last.NN >= 1
  /\ last.query = dataset /\ last.nbQuery = N

FirstEqual(i) ==
  CHOOSE j \in 0..i :
    DataRow(j) = DataRow(i) /\ \A h \in 0..(j - 1) : DataRow(h) # DataRow(i)

\* row i is shortlisted for its own query: fewer than ShortlistMul * k rows
\* before it have its secondary code
SelfShortlisted(i) ==
  Cardinality({j \in 0..(i - 1) :
                 hashed_base_[j + 1].code = hashed_base_[i + 1].code})
    < ShortlistMul * last.NN

ColTotal(j) ==
  SumTo([i \in 1..N |-> dataset[(i - 1) * memMapping.cols + j]], N)

\* C10: Build on a dataset of at least one row succeeds and leaves a view of
\* all its rows; the stored zero-mean vector is the element-wise mean of the
\* rows; the stored dataset codes are the hash of the dataset with that
\* vector, and the codes of every query batch are the hash with that vector.
C10_BuildStoresMean ==
  /\ (last.op = "Build" /\ last.nbRows >= 1) =>
       /\ last.ret
       /\ memMapping = [null |-> FALSE, rows |-> last.nbRows,
                        cols |-> last.dimension]
  /\ memMapping # NULL =>
       /\ Len(zero_mean_descriptor_.num) = memMapping.cols
       /\ zero_mean_descriptor_.den > 0
       /\ \A j \in 1..memMapping.cols :
            zero_mean_descriptor_.num[j] * N
              = zero_mean_descriptor_.den * ColTotal(j)
       /\ hashed_base_ = CreateHashedDescriptions(
                            cascade_hasher_,
                            Map(dataset, N, memMapping.cols),
                            zero_mean_descriptor_)
  /\ (Searched /\ last.ret) =>
       last.hashed_query = CreateHashedDescriptions(
                             cascade_hasher_,
                             Map(last.query, last.nbQuery, memMapping.cols),
                             zero_mean_descriptor_)

\* a rebuild on rows whose mean is no whole number
C10_Witness ==
  /\ last.op = "Build" /\ last.ret /\ last.wasBuilt /\ last.nbRows = 2
  /\ zero_mean_descriptor_.num[1] = 1 /\ zero_mean_descriptor_.den = 2

(***************************************************************************)
(* A caller that hands over any dimension.  Build takes the dimension as   *)
(* an int, SearchNeighbours takes no dimension at all: the query buffer is *)
(* a bare pointer, read as nbQuery rows of memMapping->cols() scalars     *)
(* whatever the length of the vectors the caller put there.                *)
(***************************************************************************)
\* the dimensions handed to Build: those of Dims, and no dimension
DimsAny == Dims \cup {0}

DoBuildAnyDim ==
  /\ last = NoCall
  /\ \E dimension \in DimsAny, nbRows \in 0..MaxCells :
       /\ nbRows * dimension <= MaxCells
       /\ \E data \in [1..(nbRows * dimension) -> Vals] :
            \E r \in {Build(Matcher, gen, data, nbRows, dimension)} :
              /\ dataset' = data
              /\ SetMatcher(r.m)
              /\ gen' = r.gen
              /\ hist' = IF r.ret THEN BuildArgs(gen, data, nbRows, dimension)
                                  ELSE NoBuild
              /\ UNCHANGED <<other, build, search>>
              /\ last' = [op |-> "Build", ret |-> r.ret, at |-> r.at,
                          nbRows |-> nbRows, dimension |-> dimension,
                          warned |-> FALSE,
                          wasBuilt |-> memMapping # NULL,
                          again |-> hist = BuildArgs(gen, data, nbRows, dimension),
                          before |-> Before(BuildArgs(gen, data, nbRows, dimension))]

\* the scalars SearchNeighbours reads from the query buffer: none when it
\* returns at one of its two tests, nbQuery rows of the view's width otherwise
QueryCellsRead(nbQuery, NN) ==
  IF memMapping = NULL \/ NN > memMapping.rows \/ nbQuery < 1
  THEN 0
  ELSE nbQuery * memMapping.cols

\* the caller's batch is nbQuery vectors of qdim scalars.  Where the code
\* reads past the end of the buffer the behaviour is undefined: the read
\* gives any scalars (pad), or the call faults and never returns.
DoSearchNeighboursAnyDim ==
  /\ last = NoCall
  /\ \E qdim \in Dims, nbQuery \in 0..MaxQCells, NN \in KRange, prior \in PriorOut :
       /\ nbQuery * qdim <= MaxQCells
       /\ \E query \in [1..(nbQuery * qdim) -> Vals] :
            \E pad \in [1..(QueryCellsRead(nbQuery, NN) - Len(query)) -> Vals] :
              \E fault \in {FALSE, QueryCellsRead(nbQuery, NN) > Len(query)} :
                \E r \in {SearchNeighbours(Matcher, dataset, query \o pad, nbQuery,
                                          prior.indices, prior.distances, NN)} :
                  /\ SetMatcher(r.m)
                  /\ UNCHANGED <<dataset, gen, hist, other, build, search>>
                  /\ last' = [op |-> "SearchNeighbours",
                              fault |-> fault,
                              ret |-> ~fault /\ r.ret,
                              at |-> IF fault THEN 125 ELSE r.at,
                              query |-> query, qdim |-> qdim,
                              nbQuery |-> nbQuery, NN |-> NN,
                              indices0 |-> prior.indices,
                              distances0 |-> prior.distances,
                              indices |-> r.indices, distances |-> r.distances,
                              warned |-> FALSE,
                              deref |-> r.deref, hashed_query |-> r.hashed_query,
                              wasBuilt |-> memMapping # NULL,
                              same |-> r.m = Matcher]

NextArgs == DoBuildAnyDim \/ DoSearchNeighboursAnyDim \/ Resume

SpecArgs == Init /\ [][NextArgs]_vars

\* C11: on an index built with dimension D >= 1, a query batch of at least
\* one row, with 1 <= k <= N, whose vectors do not have D scalars is refused:
\* the call fails, hashes no query and leaves the caller's lists as they were.
C11_DimensionMismatchRefused ==
  (Searched /\ last.wasBuilt /\ memMapping.cols >= 1
     /\ last.nbQuery >= 1 /\ 1 <= last.NN /\ last.NN <= N
     /\ last.qdim # memMapping.cols) =>
    (~last.ret /\ ~last.fault /\ last.hashed_query = <<>> /\ OutputsUntouched)

\* C12: Build with a dimension below 1 fails and leaves no view.
C12_NoDimensionRefused ==
  (last.op = "Build" /\ last.dimension <= 0) =>
    (~last.ret /\ memMapping = NULL)

(***************************************************************************)
(* Calls in flight on several threads.  The class takes no lock: a call    *)
(* runs its statements one after the other on the members, and statements  *)
(* of calls on other threads run in between.  A step is one statement of   *)
(* the source (pc is its line).                                            *)
(***************************************************************************)
\* Build whose line 67 leaves the stored codes as they are
BuildStep_KeepsCodes(m, g, data, b) ==
  LET view == [null |-> FALSE, rows |-> b.nbRows, cols |-> b.dimension]
      init == HasherInit(g, b.dimension)
      mat == Map(data, m.memMapping.rows, m.memMapping.cols)
      at(line) == [b EXCEPT !.pc = line]
  IN CASE b.pc = 57 ->
            IF b.nbRows < 1
            THEN [m |-> [m EXCEPT !.memMapping = NULL], gen |-> g,
                  data |-> data, b |-> at(59)]
            ELSE [m |-> m, gen |-> g, data |-> data, b |-> at(61)]
       [] b.pc = 61 ->
            [m |-> [m EXCEPT !.memMapping = view], gen |-> g,
             data |-> b.data, b |-> at(64)]
       [] b.pc = 64 ->
            [m |-> [m EXCEPT !.cascade_hasher_ = init.hasher], gen |-> init.gen,
             data |-> data, b |-> at(66)]
       [] b.pc = 66 ->
            [m |-> [m EXCEPT !.zero_mean_descriptor_ = GetZeroMeanDescriptor(mat)],
             gen |-> g, data |-> data, b |-> at(67)]
       [] b.pc = 67 ->
            [m |-> m, gen |-> g, data |-> data, b |-> at(70)]

\* one statement of Build on matcher m, generator g and the buffer the view
\* points at; b is the call (its line and arguments)
BuildStep(m, g, data, b) ==
  LET view == [null |-> FALSE, rows |-> b.nbRows, cols |-> b.dimension]
      init == HasherInit(g, b.dimension)
      mat == Map(data, m.memMapping.rows, m.memMapping.cols)
      at(line) == [b EXCEPT !.pc = line]
  IN CASE b.pc = 57 ->
            IF b.nbRows < 1
            THEN [m |-> [m EXCEPT !.memMapping = NULL], gen |-> g,
                  data |-> data, b |-> at(59)]
            ELSE [m |-> m, gen |-> g, data |-> data, b |-> at(61)]
       [] b.pc = 61 ->
            [m |-> [m EXCEPT !.memMapping = view], gen |-> g,
             data |-> b.data, b |-> at(64)]
       [] b.pc = 64 ->
            [m |-> [m EXCEPT !.cascade_hasher_ = init.hasher], gen |-> init.gen,
             data |-> data, b |-> at(66)]
       [] b.pc = 66 ->
            [m |-> [m EXCEPT !.zero_mean_descriptor_ = GetZeroMeanDescriptor(mat)],
             gen |-> g, data |-> data, b |-> at(67)]
       [] b.pc = 67 ->
            [m |-> [m EXCEPT !.hashed_base_ =
                      CreateHashedDescriptions(m.cascade_hasher_, mat,
                                               m.zero_mean_descriptor_)],
             gen |-> g, data |-> data, b |-> at(70)]

\* SearchNeighbours that centres the queries on their own mean and keeps that
\* mean in the member
SearchStep_CentresInPlace(m, data, s, fault) ==
  LET mat_query == Map(s.query, s.nbQuery, s.cols)
      own == GetZeroMeanDescriptor(mat_query)
      out == Match_HashedDescriptions(s.hashed_query, mat_query, m.hashed_base_,
                                      Deref(m, data), s.indices, s.distances,
                                      s.NN)
  IN CASE s.pc = 110 ->
            IF m.memMapping = NULL
            THEN [m |-> m, s |-> [s EXCEPT !.pc = 136, !.ret = FALSE]]
            ELSE [m |-> m, s |-> [s EXCEPT !.pc = 114]]
       [] s.pc = 114 ->
            IF s.NN > m.memMapping.rows \/ s.nbQuery < 1
            THEN [m |-> m, s |-> [s EXCEPT !.pc = 136, !.ret = FALSE,
                                           !.rows = m.memMapping.rows]]
            ELSE [m |-> m, s |-> [s EXCEPT !.pc = 119,
                                           !.rows = m.memMapping.rows]]
       [] s.pc = 119 ->
            [m |-> m, s |-> [s EXCEPT !.pc = 125, !.cols = m.memMapping.cols]]
       [] s.pc = 125 ->
            [m |-> [m EXCEPT !.zero_mean_descriptor_ = own],
             s |-> [s EXCEPT !.pc = 129,
                      !.hashed_query =
                         CreateHashedDescriptions(m.cascade_hasher_, mat_query,
                                                  own),
                      !.seen.cascade_hasher_ = m.cascade_hasher_,
                      !.seen.zero_mean_descriptor_ = own]]
       [] s.pc = 129 ->
            IF fault
            THEN [m |-> m, s |-> [s EXCEPT !.pc = 136, !.fault = TRUE]]
            ELSE [m |-> m,
                  s |-> [s EXCEPT !.pc = 136, !.ret = TRUE,
                           !.indices = out.indices,
                           !.distances = out.distances,
                           !.seen.memMapping = m.memMapping,
                           !.seen.hashed_base_ = m.hashed_base_,
                           !.seenData = data]]

\* one statement of SearchNeighbours on matcher m and the buffer the view
\* points at; s is the call (its line, arguments and locals).  fault: the
\* read of the dataset at line 129 ran past the end of the buffer and the
\* call never returns.
SearchStep(m, data, s, fault) ==
  LET mat_query == Map(s.query, s.nbQuery, s.cols)
      out == Match_HashedDescriptions(s.hashed_query, mat_query, m.hashed_base_,
                                      Deref(m, data), s.indices, s.distances,
                                      s.NN)
  IN CASE s.pc = 110 ->
            IF m.memMapping = NULL
            THEN [m |-> m, s |-> [s EXCEPT !.pc = 136, !.ret = FALSE]]
            ELSE [m |-> m, s |-> [s EXCEPT !.pc = 114]]
       [] s.pc = 114 ->
            IF s.NN > m.memMapping.rows \/ s.nbQuery < 1
            THEN [m |-> m, s |-> [s EXCEPT !.pc = 136, !.ret = FALSE,
                                           !.rows = m.memMapping.rows]]
            ELSE [m |-> m, s |-> [s EXCEPT !.pc = 119,
                                           !.rows = m.memMapping.rows]]
       [] s.pc = 119 ->
            [m |-> m, s |-> [s EXCEPT !.pc = 125, !.cols = m.memMapping.cols]]
       [] s.pc = 125 ->
            [m |-> m,
             s |-> [s EXCEPT !.pc = 129,
                      !.hashed_query =
                         CreateHashedDescriptions(m.cascade_hasher_, mat_query,
                                                  m.zero_mean_descriptor_),
                      !.seen.cascade_hasher_ = m.cascade_hasher_,
                      !.seen.zero_mean_descriptor_ = m.zero_mean_descriptor_]]
       [] s.pc = 129 ->
            IF fault
            THEN [m |-> m, s |-> [s EXCEPT !.pc = 136, !.fault = TRUE]]
            ELSE [m |-> m,
                  s |-> [s EXCEPT !.pc = 136, !.ret = TRUE,
                           !.indices = out.indices,
                           !.distances = out.distances,
                           !.seen.memMapping = m.memMapping,
                           !.seen.hashed_base_ = m.hashed_base_,
                           !.seenData = data]]

\* longest dataset buffer handed to Build where calls run on several
\* threads or on several matchers
MaxCellsThreaded == MaxCells - 1

\* a Build with no other call in flight
BuildAlone ==
  /\ build.pc = 0
  /\ \A t \in Threads : search[t].pc = 0
  /\ \E dimension \in Dims, nbRows \in 0..MaxCellsThreaded :
       /\ nbRows * dimension <= MaxCellsThreaded
       /\ \E data \in [1..(nbRows * dimension) -> Vals] :
            \E r \in {Build(Matcher, gen, data, nbRows, dimension)} :
              /\ dataset' = data
              /\ SetMatcher(r.m)
              /\ gen' = r.gen
              /\ hist' = IF r.ret THEN BuildArgs(gen, data, nbRows, dimension)
                                  ELSE NoBuild
              /\ UNCHANGED <<last, other, build, search>>

\* a thread calls SearchNeighbours with one query row and lists of its own
SearchCall(t) ==
  /\ search[t].pc = 0
  /\ \E c \in QueryCols, NN \in (1..memMapping.rows) \cup {1} :
       \E query \in [1..c -> Vals] :
         search' = [search EXCEPT ![t] =
                      [Idle EXCEPT !.pc = 110, !.query = query, !.nbQuery = 1,
                                   !.NN = NN, !.overlap = build.pc # 0]]
  /\ UNCHANGED <<dataset, memMapping, cascade_hasher_, hashed_base_,
                 zero_mean_descriptor_, gen, last, hist, other, build>>

\* the scalars line 129 reads past the end of the dataset buffer: the stored
\* codes tell it which rows there are, the view where they lie
CellsPastEnd(t) ==
  IF search[t].pc = 129
  THEN Len(hashed_base_) * memMapping.cols - Len(dataset)
  ELSE 0

\* the next statement of the search of thread t.  A read past the end of the
\* buffer is undefined: it gives any scalars (pad), or the call faults.
SearchRun(t) ==
  /\ search[t].pc \in {110, 114, 119, 125, 129}
  /\ \E pad \in [1..CellsPastEnd(t) -> Vals] :
       \E fault \in {FALSE, CellsPastEnd(t) > 0} :
         \E r \in {SearchStep(Matcher, dataset \o pad, search[t], fault)} :
           /\ SetMatcher(r.m)
           /\ search' = [search EXCEPT ![t] =
                           [r.s EXCEPT !.overlap = @ \/ build.pc # 0,
                                       !.same = @ /\ r.m = Matcher]]
  /\ UNCHANGED <<dataset, gen, last, hist, other, build>>

\* the call of thread t returns (line 111, 115 or 135)
SearchReturn(t) ==
  /\ search[t].pc = 136
  /\ search' = [search EXCEPT ![t] = Idle]
  /\ UNCHANGED <<dataset, memMapping, cascade_hasher_, hashed_base_,
                 zero_mean_descriptor_, gen, last, hist, other, build>>

\* a caller that searches from two threads and rebuilds only when no search
\* is in flight
NextReaders ==
  \/ BuildAlone
  \/ \E t \in Threads : SearchCall(t) \/ SearchRun(t) \/ SearchReturn(t)

SpecReaders == Init /\ [][NextReaders]_vars

\* a caller that rebuilds a built matcher, on a dataset of at least one row
\* and of the dimension it has, while a search of thread 1 may be in flight:
\* one that has met no Build yet
BuildCall ==
  /\ build.pc = 0
  /\ memMapping # NULL
  /\ \A t \in Threads : ~search[t].overlap
  /\ \E nbRows \in 1..MaxCellsThreaded :
       /\ nbRows * memMapping.cols <= MaxCellsThreaded
       /\ \E data \in [1..(nbRows * memMapping.cols) -> Vals] :
            build' = [pc |-> 57, gen0 |-> gen, data |-> data,
                      nbRows |-> nbRows, dimension |-> memMapping.cols]
  /\ search' = [t \in Threads |->
                  IF search[t].pc = 0 THEN search[t]
                  ELSE [search[t] EXCEPT !.overlap = TRUE]]
  /\ UNCHANGED <<dataset, memMapping, cascade_hasher_, hashed_base_,
                 zero_mean_descriptor_, gen, last, hist, other>>

\* the next statement of the Build in flight
BuildRun ==
  /\ build.pc \in {57, 61, 64, 66, 67}
  /\ \E r \in {BuildStep(Matcher, gen, dataset, build)} :
       /\ SetMatcher(r.m)
       /\ gen' = r.gen
       /\ dataset' = r.data
       /\ build' = r.b
  /\ UNCHANGED <<last, hist, other, search>>

\* the Build in flight returns (line 59 or 70)
BuildReturn ==
  /\ build.pc \in {59, 70}
  /\ hist' = IF build.pc = 70
             THEN BuildArgs(build.gen0, build.data, build.nbRows, build.dimension)
             ELSE NoBuild
  /\ build' = NoBuildCall
  /\ UNCHANGED <<dataset, memMapping, cascade_hasher_, hashed_base_,
                 zero_mean_descriptor_, gen, last, other, search>>

NextRebuild ==
  \/ BuildAlone \/ BuildCall \/ BuildRun \/ BuildReturn
  \/ SearchCall(1) \/ SearchRun(1) \/ SearchReturn(1)

SpecRebuild == Init /\ [][NextRebuild]_vars

\* the index a Build with arguments h leaves in a matcher
IndexOf(h) == Build(NeverBuilt, h.gen0, h.data, h.nbRows, h.dimension).m

\* what the search s has read is one index: the rows it tested k against,
\* the width it gave the query rows, the projections, the mean, the codes
\* and the rows it measured against are those of one Build on one buffer
Complete(s) ==
  /\ s.rows = s.seen.memMapping.rows
  /\ s.cols = s.seen.memMapping.cols
  /\ Len(s.seenData) = s.rows * s.cols
  /\ \E g \in 0..(GenMod - 1) :
       s.seen = IndexOf(BuildArgs(g, s.seenData, s.rows, s.cols))

\* what the search s has got is what the same call gets run alone on the
\* matcher as it is now
AsAlone(s) ==
  LET alone == SearchNeighbours(Matcher, dataset, s.query, s.nbQuery,
                                <<>>, <<>>, s.NN)
  IN /\ ~s.fault
     /\ s.ret = alone.ret
     /\ s.indices = alone.indices
     /\ s.distances = alone.distances
     /\ s.ret => s.hashed_query = alone.hashed_query

\* C13 as claimed: a search that a Build ran alongside has read one
\* complete index, the one it started with or the new one, never parts of
\* two.
C13_SearchSeesWholeIndex ==
  \A t \in Threads :
    search[t].pc = 136 =>
      (~search[t].fault /\ (search[t].ret => Complete(search[t])))

\* the members while the Build b is in flight: those of the index before,
\* replaced by those of the new index one after the other, in the order of
\* lines 61, 64, 66 and 67
InPlace(b) ==
  LET old == IndexOf(hist)
      new == IndexOf(BuildArgs(b.gen0, b.data, b.nbRows, b.dimension))
  IN [memMapping |-> IF b.pc >= 64 THEN new.memMapping ELSE old.memMapping,
      cascade_hasher_ |->
        IF b.pc >= 66 THEN new.cascade_hasher_ ELSE old.cascade_hasher_,
      zero_mean_descriptor_ |->
        IF b.pc >= 67 THEN new.zero_mean_descriptor_
        ELSE old.zero_mean_descriptor_,
      hashed_base_ |-> IF b.pc >= 70 THEN new.hashed_base_ ELSE old.hashed_base_]

\* C13 as amended: Build replaces the members in place, one after the other:
\* while a rebuild is in flight the matcher holds the view of the new index
\* with projections, mean or codes of the old one.  The index is one complete
\* index whenever no Build is in flight, and a search during which no Build
\* was in flight has read one complete index and got what the call gets run
\* alone.
C13_InPlaceRebuild ==
  /\ build.pc # 0 => Matcher = InPlace(build)
  /\ (build.pc = 0 /\ memMapping # NULL) =>
       (Matcher = IndexOf(hist) /\ dataset = hist.data)
  /\ \A t \in Threads :
       (search[t].pc = 136 /\ ~search[t].overlap) =>
         /\ AsAlone(search[t])
         /\ search[t].ret => Complete(search[t])

\* a search has returned results read from the view of the new index and
\* the codes of the old one, while the rebuild has not stored its codes yet
C13_Witness ==
  /\ build.pc = 67
  /\ hashed_base_ # InPlace([build EXCEPT !.pc = 70]).hashed_base_
  /\ search[1].pc = 136 /\ search[1].ret /\ search[1].overlap
  /\ search[1].seen.memMapping = memMapping
  /\ search[1].seen.hashed_base_ = hashed_base_
  /\ ~Complete(search[1])

\* C14: with no Build in flight, the searches of two threads leave the
\* members and the dataset as Build left them, whatever the statements of the
\* other thread that run in between, and each gets what the same call gets
\* run alone.
C14_ReadersShareNothing ==
  /\ memMapping # NULL => (Matcher = IndexOf(hist) /\ dataset = hist.data)
  /\ \A t \in Threads :
       /\ search[t].same
       /\ search[t].pc = 136 => AsAlone(search[t])

\* thread 1 has its results while thread 2, which searches for another
\* query, is half way
C14_Witness ==
  /\ search[1].pc = 136 /\ search[1].ret /\ search[1].NN = 2
  /\ search[1].distances[1] < search[1].distances[2]
  /\ search[2].pc = 129 /\ search[2].query # search[1].query
  /\ search[2].hashed_query # search[1].hashed_query

(***************************************************************************)
(* A caller that seeds its generator anew: Build takes the std::mt19937 by *)
(* reference and CascadeHasher::Init draws from it, so a second Build sees *)
(* the state of the first only when the caller puts the generator back.    *)
(***************************************************************************)
Reseed ==
  /\ last = NoCall
  /\ \E g \in 0..(GenMod - 1) : g # gen /\ gen' = g
  /\ UNCHANGED <<dataset, memMapping, cascade_hasher_, hashed_base_,
                 zero_mean_descriptor_, last, hist, other, build, search>>

NextSeed == DoBuild \/ DoSearchNeighbours \/ Reseed \/ Resume

SpecSeed == Init /\ [][NextSeed]_vars

\* the queries and neighbour counts a caller of the matcher as it is now
\* may search with
SearchArgs ==
  {a \in [q : Queries, NN : KRange] :
     Len(a.q.data) = a.q.nbQuery * memMapping.cols}

\* C15: a Build with the generator state, the dataset and the sizes of the
\* Build before it, on the matcher that Build left, succeeds and leaves the
\* same view, projections, mean and codes over the same dataset: every
\* search gives on it what it gave before it.
C15_RebuildIdempotent ==
  (last.op = "Build" /\ last.again) =>
    /\ last.ret
    /\ Matcher = last.before.m
    /\ dataset = last.before.dataset
    /\ \A a \in SearchArgs :
         SearchNeighbours(Matcher, dataset, a.q.data, a.q.nbQuery,
                          <<>>, <<>>, a.NN)
           = SearchNeighbours(last.before.m, last.before.dataset, a.q.data,
                              a.q.nbQuery, <<>>, <<>>, a.NN)

\* the same three rows, not all alike, built twice from the same generator
\* state
C15_Witness ==
  /\ last.op = "Build" /\ last.again /\ last.ret
  /\ N = 3 /\ DataRow(0) # DataRow(1)
  /\ last.before.m.hashed_base_ = hashed_base_
  /\ hashed_base_[1] # hashed_base_[2]

(***************************************************************************)
(* A caller with two matchers.  The second has a generator, a dataset      *)
(* buffer and a past of its own: other is that matcher, the buffer its     *)
(* view points at, the arguments of its last Build and whether it held an  *)
(* index before that Build.  The caller seeds a generator for every Build  *)
(* and builds on at least one row.                                         *)
(***************************************************************************)
\* Build on the first matcher
DoBuildFirst ==
  /\ last = NoCall
  /\ \E g \in 0..(GenMod - 1), dimension \in Dims, nbRows \in 1..MaxCellsThreaded :
       /\ nbRows * dimension <= MaxCellsThreaded
       /\ \E data \in [1..(nbRows * dimension) -> Vals] :
            \E r \in {Build(Matcher, g, data, nbRows, dimension)} :
              /\ dataset' = data
              /\ SetMatcher(r.m)
              /\ gen' = r.gen
              /\ hist' = IF r.ret THEN BuildArgs(g, data, nbRows, dimension)
                                  ELSE NoBuild
  /\ UNCHANGED <<last, other, build, search>>

\* Build on the second matcher
DoBuildOther ==
  /\ last = NoCall
  /\ \E g \in 0..(GenMod - 1), dimension \in Dims, nbRows \in 1..MaxCellsThreaded :
       /\ nbRows * dimension <= MaxCellsThreaded
       /\ \E data \in [1..(nbRows * dimension) -> Vals] :
            \E r \in {Build(other.m, g, data, nbRows, dimension)} :
              other' = [m |-> r.m, dataset |-> data,
                        hist |-> IF r.ret
                                 THEN BuildArgs(g, data, nbRows, dimension)
                                 ELSE NoBuild,
                        rebuilt |-> other.m.memMapping # NULL]
  /\ UNCHANGED <<dataset, memMapping, cascade_hasher_, hashed_base_,
                 zero_mean_descriptor_, gen, last, hist, build, search>>

\* what the caller compares of a search
Results(r) ==
  [ret |-> r.ret, indices |-> r.indices, distances |-> r.distances,
   hashed_query |-> r.hashed_query]

\* the same query batch and neighbour count searched on both matchers; the
\* rows have the width of a view one of the two has
DoSearchBoth ==
  /\ last = NoCall
  /\ \E c \in {memMapping.cols, other.m.memMapping.cols} \ {0} :
       \E nbQuery \in 1..MaxQCells, NN \in 1..MaxCellsThreaded :
         /\ nbQuery * c <= MaxQCells
         /\ memMapping # NULL => memMapping.cols = c
         /\ other.m.memMapping # NULL => other.m.memMapping.cols = c
         /\ \E query \in [1..(nbQuery * c) -> Vals] :
              last' = [op |-> "SearchBoth", query |-> query,
                       nbQuery |-> nbQuery, NN |-> NN,
                       first |-> Results(SearchNeighbours(
                                   Matcher, dataset, query, nbQuery,
                                   <<>>, <<>>, NN)),
                       second |-> Results(SearchNeighbours(
                                    other.m, other.dataset, query, nbQuery,
                                    <<>>, <<>>, NN))]
  /\ UNCHANGED <<dataset, memMapping, cascade_hasher_, hashed_base_,
                 zero_mean_descriptor_, gen, hist, other, build, search>>

NextTwo == DoBuildFirst \/ DoBuildOther \/ DoSearchBoth \/ Resume

SpecTwo == Init /\ [][NextTwo]_vars

\* C16: two matchers whose last Builds had the same generator state, the
\* same dataset and the same sizes give, for the same query batch and k, the
\* same outcome: the same value returned, the same query codes, the same
\* matches in the same order with the same distances.
C16_TwoMatchersAgree ==
  (last.op = "SearchBoth" /\ hist = other.hist /\ hist # NoBuild) =>
    last.first = last.second

\* two rows, the nearer one second; the second matcher held another index
\* before
C16_Witness ==
  /\ last.op = "SearchBoth" /\ hist = other.hist /\ other.rebuilt
  /\ last.first.ret /\ last.NN = 2 /\ last.nbQuery = 2
  /\ last.second.indices[1] = <<0, 1>>
  /\ last.second.distances[1] > 0
  /\ last.second.indices[3] = <<1, 0>>

(***************************************************************************)
(* What a rebuild leaves of the index before.                              *)
(***************************************************************************)
\* row j of the dataset handed to the most recent Build that succeeded
BuiltRow(j) == Row(Map(hist.data, hist.nbRows, hist.dimension), j)

\* C17: whenever the matcher has a view, the view, the projections, the mean
\* and the codes are those the most recent successful Build leaves in a new
\* matcher, over the dataset of that Build; k is tested against the row
\* count of that Build; every match a search returns is a row of that
\* dataset, with the distance to that row.
C17_IndexOfLastBuild ==
  /\ memMapping # NULL =>
       /\ hist # NoBuild
       /\ Matcher = IndexOf(hist)
       /\ dataset = hist.data
  /\ (last.op = "Build" /\ last.ret) =>
       (hist.nbRows = last.nbRows /\ hist.dimension = last.dimension)
  /\ (Searched /\ last.wasBuilt) =>
       /\ last.NN > hist.nbRows => ~last.ret
       /\ last.ret =>
            \A k \in (Base + 1)..Len(last.indices) :
              /\ last.indices[k][2] \in 0..(hist.nbRows - 1)
              /\ last.distances[k]
                   = L2(QueryRow(last.indices[k][1]),
                        BuiltRow(last.indices[k][2]))

\* a matcher that had a view has just been built again, with other
\* arguments, on a single row of two scalars
C17_Witness ==
  /\ last.op = "Build" /\ last.ret /\ last.wasBuilt /\ ~last.again
  /\ hist.nbRows = 1 /\ hist.dimension = 2
  /\ hist.data[1] # hist.data[2]
  /\ Len(hashed_base_) = 1

(***************************************************************************)
(* A caller that writes to its dataset buffer after Build.  memMapping is  *)
(* a view of the caller's buffer, not a copy: dataset is that buffer as it *)
(* is now, hist.data what it held when Build was called.  A buffer the     *)
(* caller frees leaves the view dangling: what a search then reads is      *)
(* undefined, any contents among others, and is not modelled beyond the    *)
(* caller's writes.                                                        *)
(***************************************************************************)
\* the caller writes one scalar of the buffer the view is over, once
CallerWrites ==
  /\ last = NoCall
  /\ memMapping # NULL
  /\ dataset = hist.data
  /\ \E k \in DOMAIN dataset, v \in Vals :
       /\ v # dataset[k]
       /\ dataset' = [dataset EXCEPT ![k] = v]
  /\ UNCHANGED <<memMapping, cascade_hasher_, hashed_base_,
                 zero_mean_descriptor_, gen, last, hist, other, build, search>>

\* Build of a dataset of at most MaxCellsThreaded scalars, with the buffer
\* as the call leaves it
DoBuildBorrowed ==
  /\ last = NoCall
  /\ \E dimension \in Dims, nbRows \in 0..MaxCellsThreaded :
       /\ nbRows * dimension <= MaxCellsThreaded
       /\ \E data \in [1..(nbRows * dimension) -> Vals] :
            \E r \in {Build(Matcher, gen, data, nbRows, dimension)} :
              /\ dataset' = r.data
              /\ SetMatcher(r.m)
              /\ gen' = r.gen
              /\ hist' = IF r.ret THEN BuildArgs(gen, data, nbRows, dimension)
                                  ELSE NoBuild
              /\ UNCHANGED <<other, build, search>>
              /\ last' = [op |-> "Build", ret |-> r.ret, at |-> r.at,
                          nbRows |-> nbRows, dimension |-> dimension,
                          data |-> data]

\* SearchNeighbours with lists of its own, with the buffers as the call
\* found them and as it leaves them
DoSearchNeighboursBorrowed ==
  /\ last = NoCall
  /\ \E q \in Queries, NN \in KRange :
       /\ \E c \in QueryCols : Len(q.data) = q.nbQuery * c
       /\ \E r \in {SearchNeighbours(Matcher, dataset, q.data, q.nbQuery,
                                     <<>>, <<>>, NN)} :
            /\ SetMatcher(r.m)
            /\ dataset' = r.data
            /\ UNCHANGED <<gen, hist, other, build, search>>
            /\ last' = [op |-> "SearchNeighbours", ret |-> r.ret, at |-> r.at,
                        query |-> q.data, nbQuery |-> q.nbQuery, NN |-> NN,
                        indices0 |-> <<>>, distances0 |-> <<>>,
                        indices |-> r.indices, distances |-> r.distances,
                        hashed_query |-> r.hashed_query,
                        wasBuilt |-> memMapping # NULL,
                        data |-> dataset, queryAfter |-> r.query]

NextBorrowed ==
  DoBuildBorrowed \/ DoSearchNeighboursBorrowed \/ CallerWrites \/ Resume

SpecBorrowed == Init /\ [][NextBorrowed]_vars

\* no call writes to a buffer of the caller: the dataset buffer holds after
\* the call what it held before, and so does the query buffer
BuffersUntouched ==
  /\ last.op = "Build" => dataset = last.data
  /\ Searched => (dataset = last.data /\ last.queryAfter = last.query)

\* C18 as claimed: what a search on a built matcher gives is what it gives
\* on the dataset as it was when Build was called, whatever the caller has
\* done to the buffer since; and no call writes to the caller's buffers.
C18_ResultsOfBuildTime ==
  /\ BuffersUntouched
  /\ (Searched /\ last.wasBuilt) =>
       Results(last)
         = Results(SearchNeighbours(IndexOf(hist), hist.data, last.query,
                                    last.nbQuery, <<>>, <<>>, last.NN))

\* C18 as amended: the matcher keeps a view of the caller's dataset buffer
\* after Build.  The mean and the codes are those of the dataset as it was
\* when Build was called; the rows a search measures against are read from
\* the buffer as it is when the search runs: every match comes with the
\* distance to the row the buffer holds then.  No call writes to the
\* caller's buffers.
C18_ViewOfCallerBuffer ==
  /\ BuffersUntouched
  /\ memMapping # NULL =>
       /\ Matcher = IndexOf(hist)
       /\ Len(dataset) = Len(hist.data)
  /\ (Searched /\ last.wasBuilt) =>
       /\ Results(last)
            = Results(SearchNeighbours(IndexOf(hist), dataset, last.query,
                                       last.nbQuery, <<>>, <<>>, last.NN))
       /\ last.ret =>
            \A k \in 1..Len(last.indices) :
              last.distances[k]
                = L2(QueryRow(last.indices[k][1]), DataRow(last.indices[k][2]))

\* the caller has raised the only row after Build: the search for the old
\* row finds it at the distance to the new one
C18_Witness ==
  /\ Searched /\ last.wasBuilt /\ last.ret /\ last.NN = 1
  /\ N = 1 /\ dataset # hist.data
  /\ last.query = hist.data
  /\ last.indices = <<<<0, 0>>>>
  /\ last.distances[1] > 0

====
